---- MODULE Spec2Model ----
(***************************************************************************)
(* A model of foqus_lib/framework/surrogate/scaling.py: the validation of  *)
(* a column, the five scale_* / unscale_* transforms, the scaler classes   *)
(* with their fitted state (lo_, hi_), the registry map_name_to_scaler and *)
(* scale_dataframe.                                                        *)
(*                                                                         *)
(* Numbers.  A float is modelled by an exact value where the model can     *)
(* hold one, and by the IEEE special values where numpy produces them:     *)
(*   k = "fin"   n/d + (an/ad) * T, a rational plus a rational multiple of *)
(*               one transcendental atom T: tk = "log" is log10(tn/td),    *)
(*               tk = "pow" is 10^(tn/td), tk = "none" is no atom (an = 0) *)
(*   k = "nan", "pinf", "ninf"   NaN, +inf, -inf                           *)
(*   k = "max", "min"   info.max and info.min of the column's dtype        *)
(*   k = "unk"   a float the model does not determine (the exact value     *)
(*               needs more than TLC's 32-bit integers, or leaves          *)
(*               the forms above)                                          *)
(*   k = "none"  Python's None (an argument not supplied)                  *)
(* Rounding is not modelled: a finite result is the real number.           *)
(***************************************************************************)
EXTENDS Integers, Sequences, FiniteSets, TLC

\* ------------------------------------------------------------ integers

Abs(x) == IF x < 0 THEN -x ELSE x

Sign(x) == IF x < 0 THEN -1 ELSE IF x > 0 THEN 1 ELSE 0

RECURSIVE GCD(_, _)
GCD(a, b) == IF b = 0 THEN a ELSE GCD(b, a % b)

\* The largest magnitude an exact intermediate result may have.
RepLimit == 2^30

MulFits(a, b) == a = 0 \/ b = 0 \/ Abs(a) <= RepLimit \div Abs(b)

\* ----------------------------------------------------------- rationals
\* <<n, d>> with d > 0 and gcd(n, d) = 1; <<0, 0>> is "not representable".

Ovf == <<0, 0>>

ROk(q) == q[2] > 0

RNorm(n, d) ==
    LET g == GCD(Abs(n), Abs(d))
        s == IF d < 0 THEN -1 ELSE 1
    IN  <<s * (n \div g), s * (d \div g)>>

RNeg(p) == <<-p[1], p[2]>>

RMul(p, q) ==
    IF ~ROk(p) \/ ~ROk(q) THEN Ovf
    ELSE IF p[1] = 0 \/ q[1] = 0 THEN <<0, 1>>
    ELSE LET g1 == GCD(Abs(p[1]), q[2])
             g2 == GCD(Abs(q[1]), p[2])
             a  == p[1] \div g1
             b  == q[1] \div g2
             c  == p[2] \div g2
             e  == q[2] \div g1
         IN  IF MulFits(a, b) /\ MulFits(c, e) THEN <<a * b, c * e>> ELSE Ovf

RInv(p) == IF ~ROk(p) \/ p[1] = 0 THEN Ovf ELSE RNorm(p[2], p[1])

RAdd(p, q) ==
    IF ~ROk(p) \/ ~ROk(q) THEN Ovf
    ELSE LET g == GCD(p[2], q[2])
             a == q[2] \div g
             b == p[2] \div g
         IN  IF MulFits(p[1], a) /\ MulFits(q[1], b) /\ MulFits(p[2], a)
             THEN RNorm(p[1] * a + q[1] * b, p[2] * a)
             ELSE Ovf

RSub(p, q) == RAdd(p, RNeg(q))

RFloor(p) == p[1] \div p[2]

\* p < q, compared as continued fractions: no product is formed.
RECURSIVE RLt(_, _)
RLt(p, q) ==
    IF RFloor(p) # RFloor(q) THEN RFloor(p) < RFloor(q)
    ELSE LET rp == p[1] % p[2]
             rq == q[1] % q[2]
         IN  IF rq = 0 THEN FALSE
             ELSE IF rp = 0 THEN TRUE
             ELSE RLt(<<q[2], rq>>, <<p[2], rp>>)

RIsInt(p) == p[2] = 1

RECURSIVE Pow10Nat(_)
Pow10Nat(k) == IF k = 0 THEN 1 ELSE 10 * Pow10Nat(k - 1)

\* p = 10^k for an integer k with -9 <= k <= 9, and that k.
IsPow10(p) ==
    \/ p[1] = 1 /\ \E k \in 0..9 : p[2] = Pow10Nat(k)
    \/ p[2] = 1 /\ \E k \in 0..9 : p[1] = Pow10Nat(k)

Exp10Of(p) ==
    IF p[2] = 1 THEN CHOOSE k \in 0..9 : p[1] = Pow10Nat(k)
    ELSE -(CHOOSE k \in 0..9 : p[2] = Pow10Nat(k))

\* -------------------------------------------------------------- values

Val(k, n, d, an, ad, tk, tn, td) ==
    [k |-> k, n |-> n, d |-> d, an |-> an, ad |-> ad, tk |-> tk, tn |-> tn, td |-> td]

Special(k) == Val(k, 0, 1, 0, 1, "none", 0, 1)

NaN  == Special("nan")
PInf == Special("pinf")
NInf == Special("ninf")
TMax == Special("max")
TMin == Special("min")
Unk  == Special("unk")
None == Special("none")

Rat(n, d) == LET q == RNorm(n, d) IN Val("fin", q[1], q[2], 0, 1, "none", 0, 1)

Num(n) == Rat(n, 1)

\* A rational plus a multiple of an atom, in normal form.
Fin(b, a, tk, t) ==
    IF ~ROk(b) \/ ~ROk(a) THEN Unk
    ELSE IF a[1] = 0 \/ tk = "none" THEN Val("fin", b[1], b[2], 0, 1, "none", 0, 1)
    ELSE Val("fin", b[1], b[2], a[1], a[2], tk, t[1], t[2])

FromR(q) == Fin(q, <<0, 1>>, "none", <<0, 1>>)

IsFin(v) == v.k = "fin"
IsRat(v) == v.k = "fin" /\ v.tk = "none"
IsAff(v) == v.k = "fin" /\ v.tk # "none"
IsInf(v) == v.k \in {"pinf", "ninf"}
IsZero(v) == IsRat(v) /\ v.n = 0

RB(v) == <<v.n, v.d>>
RA(v) == <<v.an, v.ad>>
RT(v) == <<v.tn, v.td>>

\* The sign of a value whose sign the model knows: -1, 0, 1; 2 when unknown.
SignOf(v) ==
    IF v.k \in {"pinf", "max"} THEN 1
    ELSE IF v.k \in {"ninf", "min"} THEN -1
    ELSE IF IsRat(v) THEN Sign(v.n)
    ELSE 2

VNeg(v) ==
    CASE v.k = "pinf" -> NInf
      [] v.k = "ninf" -> PInf
      [] v.k = "max"  -> TMin
      [] v.k = "min"  -> TMax
      [] v.k = "fin"  -> Fin(RNeg(RB(v)), RNeg(RA(v)), v.tk, RT(v))
      [] OTHER        -> v

VAdd(x, y) ==
    IF x.k = "nan" \/ y.k = "nan" THEN NaN
    ELSE IF x.k = "unk" \/ y.k = "unk" THEN Unk
    ELSE IF IsInf(x) /\ IsInf(y) THEN (IF x.k = y.k THEN x ELSE NaN)
    ELSE IF IsInf(x) THEN x
    ELSE IF IsInf(y) THEN y
    ELSE IF x.k # "fin" \/ y.k # "fin" THEN Unk
    ELSE IF IsAff(x) /\ IsAff(y)
         THEN IF x.tk = y.tk /\ RT(x) = RT(y)
              THEN Fin(RAdd(RB(x), RB(y)), RAdd(RA(x), RA(y)), x.tk, RT(x))
              ELSE Unk
    ELSE IF IsAff(x) THEN Fin(RAdd(RB(x), RB(y)), RA(x), x.tk, RT(x))
    ELSE IF IsAff(y) THEN Fin(RAdd(RB(x), RB(y)), RA(y), y.tk, RT(y))
    ELSE FromR(RAdd(RB(x), RB(y)))

VSub(x, y) == VAdd(x, VNeg(y))

VMul(x, y) ==
    IF x.k = "nan" \/ y.k = "nan" THEN NaN
    ELSE IF x.k = "unk" \/ y.k = "unk" THEN Unk
    ELSE IF IsInf(x) \/ IsInf(y)
         THEN LET s == SignOf(x) * SignOf(y)
              IN  IF SignOf(x) = 2 \/ SignOf(y) = 2 THEN Unk
                  ELSE IF s = 0 THEN NaN
                  ELSE IF s > 0 THEN PInf ELSE NInf
    ELSE IF x.k # "fin" \/ y.k # "fin" THEN Unk
    ELSE IF IsAff(x) /\ IsAff(y) THEN Unk
    ELSE IF IsAff(x) THEN Fin(RMul(RB(x), RB(y)), RMul(RA(x), RB(y)), x.tk, RT(x))
    ELSE IF IsAff(y) THEN Fin(RMul(RB(x), RB(y)), RMul(RA(y), RB(x)), y.tk, RT(y))
    ELSE FromR(RMul(RB(x), RB(y)))

\* x / y as numpy divides floats: x / 0 is +-inf or NaN, never an error.
VDiv(x, y) ==
    IF x.k = "nan" \/ y.k = "nan" THEN NaN
    ELSE IF x.k = "unk" \/ y.k = "unk" THEN Unk
    ELSE IF IsInf(y)
         THEN IF IsInf(x) THEN NaN
              ELSE IF x.k = "fin" THEN Num(0) ELSE Unk
    ELSE IF IsZero(y)
         THEN IF SignOf(x) = 2 THEN Unk
              ELSE IF SignOf(x) = 0 THEN NaN
              ELSE IF SignOf(x) > 0 THEN PInf ELSE NInf
    ELSE IF IsRat(y) THEN VMul(x, FromR(RInv(RB(y))))
    ELSE IF IsAff(y)
         THEN IF IsZero(x) THEN Num(0)
              ELSE IF IsAff(x) /\ x.tk = y.tk /\ RT(x) = RT(y)
                      /\ RMul(RB(x), RA(y)) = RMul(RB(y), RA(x))
                      /\ ROk(RMul(RB(x), RA(y)))
                   THEN FromR(RMul(RA(x), RInv(RA(y))))
              ELSE Unk
    ELSE Unk

\* np.log10 of a float: log10(0) = -inf, log10 of a negative number is NaN.
VLog10(x) ==
    CASE x.k = "nan"  -> NaN
      [] x.k = "pinf" -> PInf
      [] x.k = "ninf" -> NaN
      [] x.k = "min"  -> NaN
      [] IsRat(x) ->
            IF x.n = 0 THEN NInf
            ELSE IF x.n < 0 THEN NaN
            ELSE IF IsPow10(RB(x)) THEN Num(Exp10Of(RB(x)))
            ELSE Fin(<<0, 1>>, <<1, 1>>, "log", RB(x))
      [] IsAff(x) ->
            IF x.tk = "pow" /\ RB(x) = <<0, 1>> /\ RA(x) = <<1, 1>>
            THEN FromR(RT(x))
            ELSE Unk
      [] OTHER -> Unk

\* float64 holds 10^q for -323 <= q <= 308: beyond, np.power(10, q) is inf or 0.
FloatMaxExp10 == 308
FloatMinExp10 == -323

\* np.power(10, x) of a float.
VPow10(x) ==
    CASE x.k = "nan"  -> NaN
      [] x.k = "pinf" -> PInf
      [] x.k = "ninf" -> Num(0)
      [] x.k = "max"  -> PInf
      [] x.k = "min"  -> Num(0)
      [] IsRat(x) ->
            IF RFloor(RB(x)) > FloatMaxExp10 THEN PInf
            ELSE IF RFloor(RB(x)) < FloatMinExp10 - 1 THEN Num(0)
            ELSE IF RIsInt(RB(x)) /\ Abs(x.n) <= 9
            THEN (IF x.n >= 0 THEN Rat(Pow10Nat(x.n), 1) ELSE Rat(1, Pow10Nat(-x.n)))
            ELSE IF RIsInt(RB(x)) \/ RFloor(RB(x)) = FloatMaxExp10
                    \/ RFloor(RB(x)) < FloatMinExp10
            THEN Unk
            ELSE Fin(<<0, 1>>, <<1, 1>>, "pow", RB(x))
      [] IsAff(x) ->
            IF x.tk = "log" /\ RB(x) = <<0, 1>> /\ RA(x) = <<1, 1>>
            THEN FromR(RT(x))
            ELSE Unk
      [] OTHER -> Unk

\* np.power(b, e) of floats, for the base hi / lo of unscale_log.
VPower(b, e) ==
    IF IsZero(e) THEN Num(1)
    ELSE IF b = Num(1) THEN Num(1)
    ELSE IF b.k = "nan" \/ e.k = "nan" THEN NaN
    ELSE IF e = Num(1) THEN b
    ELSE IF IsRat(b) /\ b.n < 0 /\ IsRat(e) /\ ~RIsInt(RB(e)) THEN NaN
    ELSE IF IsRat(b) /\ b.n > 0 /\ IsPow10(RB(b)) /\ IsRat(e)
         THEN VPow10(FromR(RMul(<<Exp10Of(RB(b)), 1>>, RB(e))))
    ELSE IF IsRat(b) /\ b.n > 0 /\ IsAff(e) /\ e.tk = "log" /\ RB(e) = <<0, 1>>
            /\ VDiv(e, VLog10(b)) = Num(1)
         THEN FromR(RT(e))
    ELSE Unk

\* ------------------------------------------------- comparisons of inputs
\* The values a caller passes (a column's elements, lo, hi) are rationals or
\* special values, never "unk" and never with an atom.

\* x < y as IEEE compares: false when either is NaN.
VLt(x, y) ==
    LET rank(v) == CASE v.k = "ninf" -> 0 [] v.k = "min" -> 1 [] v.k = "fin" -> 2
                     [] v.k = "max" -> 3 [] OTHER -> 4
    IN  IF x.k = "nan" \/ y.k = "nan" THEN FALSE
        ELSE IF x.k = "fin" /\ y.k = "fin" THEN RLt(RB(x), RB(y))
        ELSE rank(x) < rank(y)

\* np.isfinite
IsFinite(x) == x.k \notin {"nan", "pinf", "ninf"}

\* np.allclose(a, b) with numpy's defaults rtol = 1e-5, atol = 1e-8:
\* |a - b| <= atol + rtol * |b|; equal infinities are close, NaN never is.
\* info.max and info.min are close to themselves alone.
AtolInv == 10^8
RtolInv == 10^5

AllClose(a, b) ==
    IF a.k = "nan" \/ b.k = "nan" THEN FALSE
    ELSE IF a.k # "fin" \/ b.k # "fin" THEN a = b
    ELSE IF a = b THEN TRUE
    ELSE LET X == Abs(a.n * b.d - b.n * a.d)
             Z == b.d + (AtolInv \div RtolInv) * Abs(b.n)
             g == GCD(a.d, AtolInv)
         IN  X <= ((a.d \div g) * Z) \div (AtolInv \div g)

\* --------------------------------------------------------------- columns
\* A column is an array: its container ("ndarray", or "Series" for a column
\* of a pandas table), its dtype ("floating", "integer", or "other" for a
\* dtype that is neither, such as bool), its number of dimensions, and its
\* elements in order.

Column(dtype, ndim, vals) ==
    [box |-> "ndarray", dtype |-> dtype, ndim |-> ndim, vals |-> vals]

Series(dtype, vals) ==
    [box |-> "Series", dtype |-> dtype, ndim |-> 1, vals |-> vals]

Size(arr) == Len(arr.vals)

Elems(arr) == {arr.vals[i] : i \in 1..Len(arr.vals)}

Least(S) == CHOOSE m \in S : \A v \in S : ~VLt(v, m)

Greatest(S) == CHOOSE m \in S : \A v \in S : ~VLt(m, v)

\* np.min(X) / np.max(X).  Of an ndarray: NaN if any element is NaN (an
\* empty one raises, see MinRaises).  Of a Series numpy calls Series.min(),
\* which skips NaN and is NaN when nothing is left.
NpMin(arr) ==
    IF arr.box = "Series"
    THEN (IF Elems(arr) \ {NaN} = {} THEN NaN ELSE Least(Elems(arr) \ {NaN}))
    ELSE IF NaN \in Elems(arr) THEN NaN ELSE Least(Elems(arr))

NpMax(arr) ==
    IF arr.box = "Series"
    THEN (IF Elems(arr) \ {NaN} = {} THEN NaN ELSE Greatest(Elems(arr) \ {NaN}))
    ELSE IF NaN \in Elems(arr) THEN NaN ELSE Greatest(Elems(arr))

\* np.min of an empty ndarray raises ValueError.
MinRaises(arr) == arr.box = "ndarray" /\ Size(arr) = 0

\* ------------------------------------------------------------ validation

ErrNonFinite == "Input data cannot contain NaN or inf values"
ErrNot1D     == "Only 1D arrays supported"
ErrTooFew    == "Array must have at least 2 values"
ErrIdentical == "Array must contain non-identical values"
ErrOverflow  == "Array contains under/overflow values for dtype"
ErrDtype     == "Unsupported data type"
ErrEpsilon   == "All values must be greater than 1e-08"
ErrZeroSize  == "zero-size array to reduction operation which has no identity"
ErrIntPower  == "Integers to negative integer powers are not allowed."
NoErr        == "ok"

\* check_under_or_overflow: "raise" for a dtype that is neither integer nor
\* floating, else whether every element is strictly inside (info.min, info.max).
check_under_or_overflow(arr) ==
    IF arr.dtype \notin {"integer", "floating"} THEN "raise"
    ELSE IF (\A v \in Elems(arr) : VLt(v, TMax)) /\ (\A v \in Elems(arr) : VLt(TMin, v))
    THEN "true"
    ELSE "false"

\* A validation that lacks the size check of line 17.
validate_without_size(array_in, lo, hi) ==
    IF ~(\A v \in Elems(array_in) : IsFinite(v)) THEN ErrNonFinite
    ELSE IF array_in.ndim # 1 THEN ErrNot1D
    ELSE IF AllClose(lo, hi) THEN ErrIdentical
    ELSE IF check_under_or_overflow(array_in) = "raise" THEN ErrDtype
    ELSE IF check_under_or_overflow(array_in) = "false" THEN ErrOverflow
    ELSE NoErr

\* A validation that lacks the allclose check of line 19.
validate_without_allclose(array_in, lo, hi) ==
    IF ~(\A v \in Elems(array_in) : IsFinite(v)) THEN ErrNonFinite
    ELSE IF array_in.ndim # 1 THEN ErrNot1D
    ELSE IF Size(array_in) < 2 THEN ErrTooFew
    ELSE IF check_under_or_overflow(array_in) = "raise" THEN ErrDtype
    ELSE IF check_under_or_overflow(array_in) = "false" THEN ErrOverflow
    ELSE NoErr

\* validate_for_scaling: the error raised, or NoErr.
validate_for_scaling(array_in, lo, hi) ==
    IF ~(\A v \in Elems(array_in) : IsFinite(v)) THEN ErrNonFinite
    ELSE IF array_in.ndim # 1 THEN ErrNot1D
    ELSE IF Size(array_in) < 2 THEN ErrTooFew
    ELSE IF AllClose(lo, hi) THEN ErrIdentical
    ELSE IF check_under_or_overflow(array_in) = "raise" THEN ErrDtype
    ELSE IF check_under_or_overflow(array_in) = "false" THEN ErrOverflow
    ELSE NoErr

\* ------------------------------------------------------------ transforms
\* A call's outcome: an error raised, or the result: an array of the input's
\* length, or (scalar) a single number.

Raise(msg) == [st |-> "err", err |-> msg, vals |-> <<>>, scalar |-> FALSE]

Return(vals) == [st |-> "ok", err |-> NoErr, vals |-> vals, scalar |-> FALSE]

ReturnScalar(v) == [st |-> "ok", err |-> NoErr, vals |-> <<v>>, scalar |-> TRUE]

Map(f(_), vals) == [i \in 1..Len(vals) |-> f(vals[i])]

\* lo / hi as the first lines of every scale_* resolve them.
LoOf(array_in, lo) == IF lo = None THEN NpMin(array_in) ELSE lo
HiOf(array_in, hi) == IF hi = None THEN NpMax(array_in) ELSE hi

\* np.min / np.max are called for a bound not supplied, before any validation.
BoundRaises(array_in, lo, hi) == (lo = None \/ hi = None) /\ MinRaises(array_in)

scale_linear(array_in, lo, hi) ==
    IF BoundRaises(array_in, lo, hi) THEN Raise(ErrZeroSize)
    ELSE LET l == LoOf(array_in, lo)
             h == HiOf(array_in, hi)
             e == validate_for_scaling(array_in, l, h)
         IN  IF e # NoErr THEN Raise(e)
             ELSE IF IsZero(VSub(h, l)) THEN ReturnScalar(Num(0))
             ELSE LET f(x) == VDiv(VSub(x, l), VSub(h, l))
                  IN  Return(Map(f, array_in.vals))

epsilon == <<1, 10^8>>

BelowEpsilon(v) ==
    CASE v.k \in {"ninf", "min"} -> TRUE
      [] v.k = "fin" -> RLt(RB(v), epsilon)
      [] OTHER -> FALSE

\* A scale_log that tests the values against epsilon after the validation.
scale_log_checking_late(array_in, lo, hi) ==
    IF BoundRaises(array_in, lo, hi) THEN Raise(ErrZeroSize)
    ELSE LET l == LoOf(array_in, lo)
             h == HiOf(array_in, hi)
             e == validate_for_scaling(array_in, l, h)
         IN  IF e # NoErr THEN Raise(e)
             ELSE IF \E v \in Elems(array_in) : BelowEpsilon(v) THEN Raise(ErrEpsilon)
             ELSE LET f(x) == VDiv(VSub(VLog10(x), VLog10(l)),
                                   VSub(VLog10(h), VLog10(l)))
                  IN  Return(Map(f, array_in.vals))

scale_log(array_in, lo, hi) ==
    IF \E v \in Elems(array_in) : BelowEpsilon(v) THEN Raise(ErrEpsilon)
    ELSE IF BoundRaises(array_in, lo, hi) THEN Raise(ErrZeroSize)
    ELSE LET l == LoOf(array_in, lo)
             h == HiOf(array_in, hi)
             e == validate_for_scaling(array_in, l, h)
         IN  IF e # NoErr THEN Raise(e)
             ELSE LET f(x) == VDiv(VSub(VLog10(x), VLog10(l)),
                                   VSub(VLog10(h), VLog10(l)))
                  IN  Return(Map(f, array_in.vals))

scale_log2(array_in, lo, hi) ==
    IF BoundRaises(array_in, lo, hi) THEN Raise(ErrZeroSize)
    ELSE LET l == LoOf(array_in, lo)
             h == HiOf(array_in, hi)
             e == validate_for_scaling(array_in, l, h)
         IN  IF e # NoErr THEN Raise(e)
             ELSE LET f(x) == VLog10(VAdd(VDiv(VMul(Num(9), VSub(x, l)), VSub(h, l)),
                                          Num(1)))
                  IN  Return(Map(f, array_in.vals))

\* np.power(10, x) raises on a negative exponent of integer type.
IntPowerRaises(array_in, l, h) ==
    /\ array_in.dtype = "integer"
    /\ \E v \in Elems(array_in) \cup {l, h} : SignOf(v) = -1

\* np.power(10, x) of an integer x wraps past 10^18; the model holds 10^0..10^9.
VPow10Of(array_in, x) ==
    IF array_in.dtype = "integer" /\ ~(IsRat(x) /\ x.n <= 9) THEN Unk ELSE VPow10(x)

scale_power(array_in, lo, hi) ==
    IF BoundRaises(array_in, lo, hi) THEN Raise(ErrZeroSize)
    ELSE LET l == LoOf(array_in, lo)
             h == HiOf(array_in, hi)
             e == validate_for_scaling(array_in, l, h)
         IN  IF e # NoErr THEN Raise(e)
             ELSE IF IntPowerRaises(array_in, l, h) THEN Raise(ErrIntPower)
             ELSE LET P(x) == VPow10Of(array_in, x)
                      f(x) == VDiv(VSub(P(x), P(l)), VSub(P(h), P(l)))
                  IN  Return(Map(f, array_in.vals))

scale_power2(array_in, lo, hi) ==
    IF BoundRaises(array_in, lo, hi) THEN Raise(ErrZeroSize)
    ELSE LET l == LoOf(array_in, lo)
             h == HiOf(array_in, hi)
             e == validate_for_scaling(array_in, l, h)
         IN  IF e # NoErr THEN Raise(e)
             ELSE LET f(x) == VMul(Rat(1, 9),
                                   VSub(VPow10(VDiv(VSub(x, l), VSub(h, l))), Num(1)))
                  IN  Return(Map(f, array_in.vals))

\* The unscale_* functions validate nothing and raise nothing.
unscale_linear(vals, lo, hi) ==
    LET f(x) == VAdd(VDiv(VMul(x, VSub(hi, lo)), Num(1)), lo)
    IN  Map(f, vals)

unscale_log(vals, lo, hi) ==
    LET f(x) == VMul(lo, VPower(VDiv(hi, lo), x))
    IN  Map(f, vals)

unscale_log2(vals, lo, hi) ==
    LET f(x) == VAdd(VDiv(VMul(VSub(VPow10(VDiv(x, Num(1))), Num(1)), VSub(hi, lo)),
                          Num(9)), lo)
    IN  Map(f, vals)

unscale_power(vals, lo, hi) ==
    LET f(x) == VLog10(VAdd(VMul(VDiv(x, Num(1)), VSub(VPow10(hi), VPow10(lo))),
                            VPow10(lo)))
    IN  Map(f, vals)

unscale_power2(vals, lo, hi) ==
    LET f(x) == VAdd(VMul(VLog10(VAdd(VDiv(VMul(Num(9), x), Num(1)), Num(1))),
                          VSub(hi, lo)), lo)
    IN  Map(f, vals)

\* -------------------------------------------------------------- scalers
\* A scaler object: whether fit has set its attributes, and lo_, hi_.

Unfitted == [fitted |-> FALSE, lo_ |-> None, hi_ |-> None]

ErrAttribute == "AttributeError: object has no attribute 'lo_'"
ErrKey       == "KeyError"

\* A registry that also answers to a lower-case spelling.
map_name_to_scaler_lenient ==
    ("Linear" :> "LinearScaler") @@ ("Log" :> "LogScaler") @@ ("Log2" :> "LogScaler2")
    @@ ("Power" :> "PowerScaler") @@ ("Power2" :> "PowerScaler2")
    @@ ("linear" :> "LinearScaler")

\* The registry: each name is bound to one instance of its class.
map_name_to_scaler ==
    ("Linear" :> "LinearScaler") @@ ("Log" :> "LogScaler") @@ ("Log2" :> "LogScaler2")
    @@ ("Power" :> "PowerScaler") @@ ("Power2" :> "PowerScaler2")

\* map_name_to_scaler[key]: a dict lookup.
Lookup(key) ==
    IF key \in DOMAIN map_name_to_scaler THEN Return(<<>>) ELSE Raise(ErrKey)

\* A fit that keeps the bounds of the first column it was given.
fit_keeping_first(self, X) ==
    IF MinRaises(X) \/ self.fitted THEN self
    ELSE [fitted |-> TRUE, lo_ |-> NpMin(X), hi_ |-> NpMax(X)]

\* A fit that widens the stored bounds to cover the new column as well.
fit_widening(self, X) ==
    IF MinRaises(X) THEN self
    ELSE IF self.fitted /\ VLt(self.lo_, NpMin(X))
         THEN [fitted |-> TRUE, lo_ |-> self.lo_, hi_ |-> NpMax(X)]
         ELSE [fitted |-> TRUE, lo_ |-> NpMin(X), hi_ |-> NpMax(X)]

\* A fit that stores nothing for a column holding a non-finite value.
fit_validating(self, X) ==
    IF MinRaises(X) \/ (\E v \in Elems(X) : ~IsFinite(v)) THEN self
    ELSE [fitted |-> TRUE, lo_ |-> NpMin(X), hi_ |-> NpMax(X)]

\* BaseScaler.fit: stores np.min(X), np.max(X); validates nothing.
fit(self, X) ==
    IF MinRaises(X) THEN self
    ELSE [fitted |-> TRUE, lo_ |-> NpMin(X), hi_ |-> NpMax(X)]

FitOutcome(X) == IF MinRaises(X) THEN Raise(ErrZeroSize) ELSE Return(<<>>)

\* The scale_* function that <class>.transform calls.
ScaleBy(cls, array_in, l, h) ==
    CASE cls = "LinearScaler" -> scale_linear(array_in, l, h)
      [] cls = "LogScaler"    -> scale_log(array_in, l, h)
      [] cls = "LogScaler2"   -> scale_log2(array_in, l, h)
      [] cls = "PowerScaler"  -> scale_power(array_in, l, h)
      [] cls = "PowerScaler2" -> scale_power2(array_in, l, h)

\* The unscale_* function that <class>.inverse_transform calls.
UnscaleBy(cls, vals, l, h) ==
    CASE cls = "LinearScaler" -> unscale_linear(vals, l, h)
      [] cls = "LogScaler"    -> unscale_log(vals, l, h)
      [] cls = "LogScaler2"   -> unscale_log2(vals, l, h)
      [] cls = "PowerScaler"  -> unscale_power(vals, l, h)
      [] cls = "PowerScaler2" -> unscale_power2(vals, l, h)

\* <class>.transform
transform(cls, self, X) ==
    IF ~self.fitted THEN Raise(ErrAttribute)
    ELSE ScaleBy(cls, X, self.lo_, self.hi_)

\* <class>.inverse_transform
inverse_transform(cls, self, X) ==
    IF ~self.fitted THEN Raise(ErrAttribute)
    ELSE Return(UnscaleBy(cls, X.vals, self.lo_, self.hi_))

\* BaseScaler.fit_transform: self.fit(X).transform(X).
fit_transform(cls, self, X) ==
    IF MinRaises(X) THEN Raise(ErrZeroSize) ELSE transform(cls, fit(self, X), X)

\* ------------------------------------------------------- scale_dataframe
\* A table: its column names in order, the dtype of its columns, its number
\* of rows and each column's cells.

Table(names, dtype, nrows, data) ==
    [names |-> names, dtype |-> dtype, nrows |-> nrows, data |-> data]

ColumnOf(df, i) == Series(df.dtype, df.data[i])

\* What a call of scale_dataframe leaves: the scaler, and either the failure
\* (at column k) or the returned pair (scaled_df, bounds); nfits counts the
\* calls of fit.
NoFrame == [st |-> "none", err |-> NoErr, k |-> 0, names |-> <<>>, nrows |-> 0,
            scaled |-> <<>>, bounds |-> <<>>, nfits |-> 0]

\* scaled_df.loc[:, col_name] = scaled_col_data: a scalar fills the column.
Cells(df, r) == IF r.scalar THEN [i \in 1..df.nrows |-> r.vals[1]] ELSE r.vals

RECURSIVE ScaleLoop(_, _, _, _, _)
ScaleLoop(df, cls, self, i, acc) ==
    IF i > Len(df.names)
    THEN <<self, [acc EXCEPT !.st = "ok"]>>
    ELSE LET col  == ColumnOf(df, i)
             r    == fit_transform(cls, self, col)
             self2 == fit(self, col)
         IN  IF r.st = "err"
             THEN <<self2, [NoFrame EXCEPT !.st = "err", !.err = r.err, !.k = i,
                                           !.nfits = acc.nfits + 1]>>
             ELSE ScaleLoop(df, cls, self2, i + 1,
                            [acc EXCEPT !.scaled = Append(@, Cells(df, r)),
                                        !.bounds = Append(@, <<self2.lo_, self2.hi_>>),
                                        !.nfits = @ + 1])

scale_dataframe(df, cls, self) ==
    ScaleLoop(df, cls, self, 1,
              [NoFrame EXCEPT !.names = df.names, !.nrows = df.nrows])

\* ---------------------------------------------------------------- state

VARIABLES
    scalers,  \* the instances of the registry: name -> scaler object
    cur,      \* the name whose instance the caller holds ("" before a lookup)
    lookups,  \* the number of lookups made
    calls,    \* the number of calls made on scaler objects
    op,       \* the last call
    name,     \* the strategy (registry key) of the last call
    X,        \* the column passed to the last call
    lo, hi,   \* the bounds passed to the last call of a scale_* function
    out,      \* the outcome of the last call
    back,     \* the inverse transform of out, once computed
    before,   \* the scaler object as it was when the last call began
    df,       \* the table passed to scale_dataframe
    frame,    \* what the last call of scale_dataframe left
    pc,       \* per column of df: the next step of its fit_transform
    part,     \* per column of df: the outcome of its transform
    got,      \* per column of df: the bounds recorded for it
    clean     \* per column of df: no other column was fitted since its own fit

vars == <<scalers, cur, lookups, calls, op, name, X, lo, hi, out, back, before, df, frame,
          pc, part, got, clean>>

\* ---------------------------------------------------------------- inputs

MaxLen == 3
MaxCols == 2
MaxLookups == 1
MaxCalls == 2

RECURSIVE SeqsUpTo(_, _)
SeqsUpTo(S, n) ==
    IF n = 0 THEN {<<>>}
    ELSE LET shorter == SeqsUpTo(S, n - 1)
         IN  shorter \cup {Append(q, v) : q \in {t \in shorter : Len(t) = n - 1}, v \in S}

NoColumn == Column("floating", 1, <<>>)
NoTable  == Table(<<>>, "floating", 0, <<>>)
NoOut    == [st |-> "none", err |-> NoErr, vals |-> <<>>, scalar |-> FALSE]

ColNames == <<"A", "B", "C", "D">>

\* ------------------------------------------- the scaler objects (Spec)

OtherNames == {"Quadratic", "linear"}

ApiColumns ==
    {Column("floating", 1, v) :
        v \in {<<>>, <<Num(1)>>, <<Num(1), Num(1)>>, <<Num(1), Num(3)>>, <<Num(1), NaN>>}}

\* The columns tables are made of, in three orders.
ColA == <<Num(1), Num(2), Num(3)>>
ColB == <<Num(10), Num(20), Num(30)>>
ColSame == <<Num(2), Num(2), Num(2)>>
ColNaN == <<Num(1), NaN, Num(3)>>
ColNeg == <<Num(-1), Num(0), Num(2)>>

ColumnOrders ==
    {<<ColA, ColB, ColSame, ColNaN>>, <<ColSame, ColA, ColB, ColNaN>>,
     <<ColA, ColNaN, ColB, ColSame>>}

Prefixes(orders, n) == {SubSeq(q, 1, k) : q \in orders, k \in 0..n}

Tables ==
    {Table(SubSeq(ColNames, 1, Len(d)), "floating", 3, d) :
        d \in Prefixes(ColumnOrders, MaxCols)}
    \cup {Table(SubSeq(ColNames, 1, Len(d)), "integer", 3, d) :
        d \in Prefixes({<<ColA, ColNeg, ColB, ColA>>}, MaxCols) \ {<<>>}}
    \cup {Table(<<"A">>, "floating", 1, <<(<<Num(1)>>)>>),
          Table(<<"A">>, "floating", 0, <<(<<>>)>>)}

Idle == /\ pc = <<>> /\ part = <<>> /\ got = <<>> /\ clean = <<>>

Init ==
    /\ scalers = [n \in DOMAIN map_name_to_scaler |-> Unfitted]
    /\ cur = "" /\ lookups = 0 /\ calls = 0 /\ op = "init" /\ name = ""
    /\ X = NoColumn /\ lo = None /\ hi = None /\ out = NoOut /\ back = <<>>
    /\ before = Unfitted /\ df = NoTable /\ frame = NoFrame
    /\ Idle

\* scaler = map_name_to_scaler[key]
DoLookup(key) ==
    /\ lookups < MaxLookups
    /\ lookups' = lookups + 1
    /\ op' = "lookup" /\ name' = key
    /\ out' = Lookup(key)
    /\ cur' = IF Lookup(key).st = "ok" THEN key ELSE cur
    /\ before' = Unfitted
    /\ X' = NoColumn /\ df' = NoTable /\ frame' = NoFrame
    /\ UNCHANGED <<scalers, calls, lo, hi, back, pc, part, got, clean>>

Call(o, Xn, self2, r) ==
    /\ cur # "" /\ calls < MaxCalls
    /\ calls' = calls + 1
    /\ op' = o /\ name' = cur /\ X' = Xn
    /\ before' = scalers[cur]
    /\ scalers' = [scalers EXCEPT ![cur] = self2]
    /\ out' = r
    /\ df' = NoTable /\ frame' = NoFrame
    /\ UNCHANGED <<cur, lookups, lo, hi, back, pc, part, got, clean>>

\* scaler.fit(X)
DoFit(Xn) ==
    Call("fit", Xn, fit(scalers[cur], Xn), FitOutcome(Xn))

\* A transform that stores the bounds of the column it is given.
DoTransformRefitting(Xn) ==
    Call("transform", Xn, fit(scalers[cur], Xn),
         transform(map_name_to_scaler[cur], scalers[cur], Xn))

\* scaler.transform(X)
DoTransform(Xn) ==
    Call("transform", Xn, scalers[cur],
         transform(map_name_to_scaler[cur], scalers[cur], Xn))

\* scaler.inverse_transform(X)
DoInverseTransform(Xn) ==
    Call("inverse_transform", Xn, scalers[cur],
         inverse_transform(map_name_to_scaler[cur], scalers[cur], Xn))

\* scaler.fit_transform(X)
DoFitTransform(Xn) ==
    Call("fit_transform", Xn, fit(scalers[cur], Xn),
         fit_transform(map_name_to_scaler[cur], scalers[cur], Xn))

\* scale_dataframe(df, scaler)
DoScaleDataframe(d) ==
    LET r == scale_dataframe(d, map_name_to_scaler[cur], scalers[cur])
    IN  /\ cur # "" /\ calls < MaxCalls
        /\ calls' = calls + 1
        /\ op' = "scale_dataframe" /\ name' = cur /\ df' = d
        /\ before' = scalers[cur]
        /\ scalers' = [scalers EXCEPT ![cur] = r[1]]
        /\ frame' = r[2]
        /\ X' = NoColumn /\ out' = NoOut
        /\ UNCHANGED <<cur, lookups, lo, hi, back, pc, part, got, clean>>

Next ==
    \/ \E key \in DOMAIN map_name_to_scaler \cup OtherNames : DoLookup(key)
    \/ \E Xn \in ApiColumns : DoFit(Xn)
    \/ \E Xn \in ApiColumns : DoTransform(Xn)
    \/ \E Xn \in ApiColumns : DoInverseTransform(Xn)
    \/ \E Xn \in ApiColumns : DoFitTransform(Xn)
    \/ \E d \in Tables : DoScaleDataframe(d)

Spec == Init /\ [][Next]_vars

\* ----------------------------------------------------- claims checked in Spec

Fitted(c) == [fitted |-> TRUE, lo_ |-> NpMin(c), hi_ |-> NpMax(c)]

ExampleTable == Table(<<"A", "B">>, "floating", 3, <<ColA, ColB>>)

\* C3: scale_dataframe fits the scaler once per column, in column order, and
\* returns for every column c bounds[c] = (min, max) of column c and the
\* column scaled with exactly those bounds, under the table's column names
\* and with its number of rows; for A=[1,2,3], B=[10,20,30] and Linear the
\* bounds are (1,3) and (10,30) and both scaled columns are [0, 1/2, 1].
C3_PerColumnBounds ==
    op = "scale_dataframe" =>
        /\ frame.st = "ok" =>
            /\ frame.names = df.names /\ frame.nrows = df.nrows
            /\ frame.nfits = Len(df.names)
            /\ Len(frame.bounds) = Len(df.names) /\ Len(frame.scaled) = Len(df.names)
            /\ \A c \in 1..Len(df.names) :
                 LET col == ColumnOf(df, c)
                 IN  /\ frame.bounds[c] = <<NpMin(col), NpMax(col)>>
                     /\ Len(frame.scaled[c]) = df.nrows
                     /\ frame.scaled[c] =
                          ScaleBy(map_name_to_scaler[name], col, NpMin(col), NpMax(col)).vals
            /\ Len(df.names) > 0 => scalers[name] = Fitted(ColumnOf(df, Len(df.names)))
        /\ (df = ExampleTable /\ name = "Linear") =>
            /\ frame.st = "ok"
            /\ frame.bounds = <<(<<Num(1), Num(3)>>), (<<Num(10), Num(30)>>)>>
            /\ frame.scaled = <<(<<Num(0), Rat(1, 2), Num(1)>>),
                                (<<Num(0), Rat(1, 2), Num(1)>>)>>

C3_ExampleScaled ==
    /\ op = "scale_dataframe" /\ name = "Linear" /\ df = ExampleTable
    /\ frame.st = "ok" /\ frame.nfits = 2

\* C8: the registry maps exactly the five names Linear, Log, Log2, Power,
\* Power2, and a lookup by any other name raises KeyError and hands out no
\* scaler.
C8_FiveNames ==
    /\ DOMAIN map_name_to_scaler = {"Linear", "Log", "Log2", "Power", "Power2"}
    /\ op = "lookup" =>
        /\ out.st = "ok" <=> name \in {"Linear", "Log", "Log2", "Power", "Power2"}
        /\ out.st = "ok" => cur = name
        /\ out.st # "ok" => out.st = "err" /\ out.err = ErrKey
    /\ cur \in {"", "Linear", "Log", "Log2", "Power", "Power2"}

C8_UnknownNameFails ==
    op = "lookup" /\ name = "Quadratic" /\ out.st = "err" /\ out.err = ErrKey /\ cur = ""

\* C9: transform and inverse_transform, successful or failing, leave lo_ and
\* hi_ of every scaler as they were; only fit, fit_transform and
\* scale_dataframe (which calls fit_transform) change them.
C9_BoundsOnlyChangedByFit ==
    [][/\ op' \in {"transform", "inverse_transform"} => scalers' = scalers
       /\ scalers' # scalers => op' \in {"fit", "fit_transform", "scale_dataframe"}]_vars

C9_FailedTransformKeptBounds ==
    /\ op = "transform" /\ out.st = "err" /\ out.err = ErrNonFinite
    /\ before.fitted /\ scalers[name] = before

ValidationErrors == {ErrNonFinite, ErrNot1D, ErrTooFew, ErrIdentical, ErrOverflow,
                     ErrDtype}

\* C10 (as stated): fit never fails on a numeric column and stores (min, max)
\* without validating; after a failing fit_transform the scaler holds the
\* rejected column's (min, max); a failing scale_dataframe returns nothing
\* and leaves the scaler with the bounds of the failing column k.
C10_FitNeverFails ==
    /\ op = "fit" => out.st = "ok" /\ scalers[name] = Fitted(X)
    /\ op = "fit_transform" /\ out.st = "err" => scalers[name] = Fitted(X)
    /\ op = "scale_dataframe" /\ frame.st = "err" =>
        /\ frame.scaled = <<>> /\ frame.bounds = <<>>
        /\ scalers[name] = Fitted(ColumnOf(df, frame.k))

\* C10: fit never validates, and it fails only on an empty array (np.min
\* raises, nothing is stored); on every other column it stores (min, max).
\* When fit_transform raises a validation error the scaler already holds the
\* rejected column's (min, max); a failing scale_dataframe returns no table
\* and no bounds and leaves the scaler with the bounds of the failing column.
C10_FitFailsOnlyOnEmpty ==
    /\ op = "fit" /\ Size(X) > 0 => out.st = "ok" /\ scalers[name] = Fitted(X)
    /\ op \in {"fit", "fit_transform"} /\ Size(X) = 0 =>
        out.st = "err" /\ out.err = ErrZeroSize /\ scalers[name] = before
    /\ op = "fit_transform" /\ out.st = "err" /\ out.err # ErrZeroSize =>
        Size(X) > 0 /\ scalers[name] = Fitted(X)
    /\ op = "scale_dataframe" /\ frame.st = "err" =>
        /\ frame.scaled = <<>> /\ frame.bounds = <<>>
        /\ frame.k \in 1..Len(df.names)
        /\ scalers[name] = Fitted(ColumnOf(df, frame.k))

C10_RejectedColumnReplacedBounds ==
    /\ op = "fit_transform" /\ out.st = "err" /\ out.err \in ValidationErrors
    /\ before.fitted /\ scalers[name] # before /\ scalers[name] = Fitted(X)

\* ------------------------------------- the functions by themselves (SpecFn)
\* A call of validate_for_scaling or of a scale_* function with the bounds
\* passed (or None), and the unscale_* function applied to what it returned.

tiny == Rat(1, 10^9)

Floats(vs, n) == {Column("floating", 1, v) : v \in SeqsUpTo(vs, n)}

Args(cols, bs) == {[X |-> c, lo |-> l, hi |-> h] : c \in cols, l \in bs, h \in bs}

\* Shapes other than 1-D (a 0-d array holds one element) and other dtypes.
OddColumns ==
    LET vs == SeqsUpTo({Num(1), Num(2), TMax}, 2)
    IN  {Column("floating", 2, v) : v \in vs}
        \cup {Column("floating", 0, v) : v \in {w \in vs : Len(w) = 1}}
        \cup {Column("integer", 1, v) : v \in vs}
        \cup {Column("integer", 1, v) : v \in SeqsUpTo({Num(-1), Num(0), Num(2)}, 2)}
        \cup {Column("other", 1, v) : v \in SeqsUpTo({Num(0), Num(1)}, 2)}
        \cup {Column("other", 2, v) : v \in SeqsUpTo({Num(0), Num(1)}, 2)}

FnArgs ==
    Args(Floats({Num(0), Num(1), Num(2), Num(3)}, MaxLen), {None, Num(0), Num(1), Num(3)})
    \cup Args(Floats({Num(1), Num(10), Num(100)}, MaxLen),
              {None, Num(-1), Num(0), Num(1), Num(100)})
    \cup Args(Floats({Num(0), tiny, Rat(1, 10^8), Num(1)}, 2),
              {None, tiny, Rat(1, 10^8), Num(1)})
    \cup Args(Floats({Num(0), Num(400), Num(100000), Num(100001)}, 2),
              {None, Num(0), Num(100000), Num(100001)})
    \cup Args(Floats({Num(1), Num(2), NaN, PInf, NInf, TMax, TMin}, 2),
              {None, Num(1), Num(2), PInf})
    \cup Args(OddColumns, {None, Num(0), Num(1), Num(2)})

InitFn ==
    /\ scalers = [n \in DOMAIN map_name_to_scaler |-> Unfitted]
    /\ cur = "" /\ lookups = 0 /\ calls = 0 /\ op = "args"
    /\ name \in DOMAIN map_name_to_scaler
    /\ \E a \in FnArgs : X = a.X /\ lo = a.lo /\ hi = a.hi
    /\ out = NoOut /\ back = <<>>
    /\ before = Unfitted /\ df = NoTable /\ frame = NoFrame
    /\ Idle

FnFrame == UNCHANGED <<scalers, cur, lookups, calls, name, X, lo, hi, before, df,
                       frame, pc, part, got, clean>>

\* validate_for_scaling(X, lo, hi)
FnValidate ==
    /\ op = "args" /\ lo # None /\ hi # None
    /\ op' = "validate"
    /\ out' = IF validate_for_scaling(X, lo, hi) = NoErr THEN Return(<<>>)
              ELSE Raise(validate_for_scaling(X, lo, hi))
    /\ back' = back
    /\ FnFrame

\* scale_<name>(X, lo, hi)
FnScale ==
    /\ op = "args"
    /\ op' = "scale"
    /\ out' = ScaleBy(map_name_to_scaler[name], X, lo, hi)
    /\ back' = back
    /\ FnFrame

\* unscale_<name>(result, lo, hi), with the bounds the scale function used
FnUnscale ==
    /\ op = "scale" /\ out.st = "ok"
    /\ op' = "unscale"
    /\ back' = UnscaleBy(map_name_to_scaler[name], out.vals, LoOf(X, lo), HiOf(X, hi))
    /\ out' = out
    /\ FnFrame

NextFn == FnValidate \/ FnScale \/ FnUnscale

SpecFn == InitFn /\ [][NextFn]_vars

\* --------------------------------------------------- claims checked in SpecFn

\* The five conditions the specification lists for a failing validation.
HasNonFinite(c) == \E v \in Elems(c) : v.k \in {"nan", "pinf", "ninf"}
NotOneDim(c) == c.ndim # 1
TooFew(c) == Size(c) < 2
Indistinguishable(l, h) == AllClose(l, h)
AtTypeLimit(c) ==
    /\ c.dtype \in {"integer", "floating"}
    /\ \E v \in Elems(c) : v.k \in {"max", "pinf", "min", "ninf"}
ListedFailure(c, l, h) ==
    \/ HasNonFinite(c) \/ NotOneDim(c) \/ TooFew(c)
    \/ Indistinguishable(l, h) \/ AtTypeLimit(c)

\* C1 (as the specification states it): validate_for_scaling(column, lo, hi)
\* fails exactly when one of the five listed conditions holds.
C1_FailsIffListed ==
    op = "validate" => (out.st = "err" <=> ListedFailure(X, lo, hi))

\* C1: validate_for_scaling(column, lo, hi) fails with an error exactly when
\* one of the five listed conditions holds or the column's dtype is neither an
\* integer nor a floating type (check_under_or_overflow then raises "Unsupported
\* data type"); it returns without error in every other case.
C1_FailsIffListedOrDtype ==
    op = "validate" =>
        (out.st = "err" <=>
            (ListedFailure(X, lo, hi) \/ X.dtype \notin {"integer", "floating"}))

C1_UnsupportedDtypeRejected ==
    /\ op = "validate" /\ ~ListedFailure(X, lo, hi)
    /\ out.st = "err" /\ out.err = ErrDtype

\* The bounds a scale_* call works with, where it gets as far as having them.
HasBounds == ~BoundRaises(X, lo, hi)
TheLo == LoOf(X, lo)
TheHi == HiOf(X, hi)
Within(v, l, h) == ~VLt(v, l) /\ ~VLt(h, v) /\ v.k # "nan"

\* C4: for every strategy and every column and bounds that pass validation,
\* with all values inside [lo, hi], unscale_*(scale_*(column, lo, hi), lo, hi)
\* is the column again.  (A value the exact arithmetic cannot represent is
\* not counted as a difference.)
C4_RoundTrip ==
    (/\ op = "unscale"
     /\ IsRat(TheLo) /\ IsRat(TheHi)
     /\ \A v \in Elems(X) : Within(v, TheLo, TheHi))
    => /\ Len(back) = Len(X.vals)
       /\ \A i \in 1..Len(back) : back[i] \in {X.vals[i], Unk}

\* A column scale_<name> accepts with the bounds fit stores for it.
ValidColumn ==
    /\ HasBounds
    /\ validate_for_scaling(X, NpMin(X), NpMax(X)) = NoErr
    /\ name = "Log" => \A v \in Elems(X) : ~VLt(v, Rat(1, 10^8))

\* C5: for every strategy and every valid column with fitted bounds
\* (lo, hi) = (min, max), the transform maps a value equal to lo to 0 and a
\* value equal to hi to 1.
C5_BoundaryValues ==
    (op = "scale" /\ lo = None /\ hi = None /\ ValidColumn)
    => /\ out.st = "ok" /\ ~out.scalar
       /\ \A i \in 1..Len(out.vals) :
            /\ X.vals[i] = TheLo => out.vals[i] \in {Num(0), Unk}
            /\ X.vals[i] = TheHi => out.vals[i] \in {Num(1), Unk}

EqualBounds == HasBounds /\ TheLo = TheHi /\ TheLo.k \notin {"nan", "none"}

\* C6 (as the specification states it): scale_linear called with lo == hi
\* yields exactly 0.
C6_EqualBoundsYieldZero ==
    (op = "scale" /\ name = "Linear" /\ EqualBounds) => out = ReturnScalar(Num(0))

\* C6: scale_linear called with lo == hi never returns: validation raises
\* "Array must contain non-identical values", or one of the errors it tests
\* for before that one; and no call of scale_linear takes the branch that
\* returns the number 0.
C6_EqualBoundsRaise ==
    op = "scale" /\ name = "Linear" =>
        /\ ~out.scalar
        /\ EqualBounds =>
             /\ out.st = "err"
             /\ out.err \in {ErrNonFinite, ErrNot1D, ErrTooFew, ErrIdentical}

C6_IdenticalRejected ==
    /\ op = "scale" /\ name = "Linear" /\ EqualBounds
    /\ lo # None /\ Size(X) >= 2
    /\ out.st = "err" /\ out.err = ErrIdentical

\* C7: scale_log raises the sub-epsilon error, and returns nothing, exactly
\* when some value of the column is below 1e-8, with or without lo and hi.
C7_SubEpsilon ==
    op = "scale" /\ name = "Log" =>
        ((\E v \in Elems(X) : VLt(v, Rat(1, 10^8)))
            <=> (out.st = "err" /\ out.err = ErrEpsilon /\ out.vals = <<>>))

C7_TinyRejected ==
    /\ op = "scale" /\ name = "Log" /\ lo # None /\ hi # None
    /\ X.vals = <<tiny, Num(1)>>
    /\ out.st = "err" /\ out.err = ErrEpsilon

\* ------------------------- columns scaled side by side on one scaler (SpecPar)
\* The body of scale_dataframe's loop, run for each column of one table by
\* its own thread of control on the scaler the registry hands out: the two
\* assignments of fit, the call of transform, and the reading of the bounds.

ParTables ==
    {Table(SubSeq(ColNames, 1, Len(d)), "floating", 3, d) :
        d \in Prefixes(ColumnOrders, MaxCols) \ {<<>>}}

ColsOf(d) == 1..Len(d.names)

InitPar ==
    /\ scalers = [n \in DOMAIN map_name_to_scaler |-> Unfitted]
    /\ name \in DOMAIN map_name_to_scaler /\ cur = name
    /\ lookups = 0 /\ calls = 0 /\ op = "start"
    /\ X = NoColumn /\ lo = None /\ hi = None /\ out = NoOut /\ back = <<>>
    /\ before = Unfitted /\ frame = NoFrame
    /\ df \in ParTables
    /\ pc = [c \in ColsOf(df) |-> "fit_lo"]
    /\ part = [c \in ColsOf(df) |-> NoOut]
    /\ got = [c \in ColsOf(df) |-> <<None, None>>]
    /\ clean = [c \in ColsOf(df) |-> TRUE]

ParFrame == UNCHANGED <<cur, lookups, calls, name, X, lo, hi, out, back, before, df, frame>>

\* Column c's assignment reaches the scaler while column d is between its own
\* fit and its reading of the bounds.
Disturbed(c) ==
    [d \in ColsOf(df) |->
        IF d # c /\ pc[d] \in {"fit_hi", "transform", "record"} THEN FALSE ELSE clean[d]]

\* self.lo_ = np.min(X)
ParFitLo(c) ==
    /\ pc[c] = "fit_lo"
    /\ scalers' = [scalers EXCEPT ![name].lo_ = fit(scalers[name], ColumnOf(df, c)).lo_]
    /\ pc' = [pc EXCEPT ![c] = "fit_hi"]
    /\ clean' = Disturbed(c)
    /\ op' = "fit_lo"
    /\ UNCHANGED <<part, got>>
    /\ ParFrame

\* self.hi_ = np.max(X)
ParFitHi(c) ==
    /\ pc[c] = "fit_hi"
    /\ scalers' = [scalers EXCEPT ![name].hi_ = fit(scalers[name], ColumnOf(df, c)).hi_,
                                  ![name].fitted = TRUE]
    /\ pc' = [pc EXCEPT ![c] = "transform"]
    /\ clean' = Disturbed(c)
    /\ op' = "fit_hi"
    /\ UNCHANGED <<part, got>>
    /\ ParFrame

\* scaled_col_data = <fit's return value>.transform(unscaled_col_data)
ParTransform(c) ==
    LET r == transform(map_name_to_scaler[name], scalers[name], ColumnOf(df, c))
    IN  /\ pc[c] = "transform"
        /\ part' = [part EXCEPT ![c] = r]
        /\ pc' = [pc EXCEPT ![c] = IF r.st = "err" THEN "failed" ELSE "record"]
        /\ op' = "transform"
        /\ UNCHANGED <<scalers, got, clean>>
        /\ ParFrame

\* bounds[col_name] = scaler.lo_, scaler.hi_
ParRecord(c) ==
    /\ pc[c] = "record"
    /\ got' = [got EXCEPT ![c] = <<scalers[name].lo_, scalers[name].hi_>>]
    /\ pc' = [pc EXCEPT ![c] = "done"]
    /\ op' = "record"
    /\ UNCHANGED <<scalers, part, clean>>
    /\ ParFrame

NextPar ==
    \/ \E c \in ColsOf(df) : ParFitLo(c)
    \/ \E c \in ColsOf(df) : ParFitHi(c)
    \/ \E c \in ColsOf(df) : ParTransform(c)
    \/ \E c \in ColsOf(df) : ParRecord(c)

SpecPar == InitPar /\ [][NextPar]_vars

\* -------------------------------------------------- claims checked in SpecPar

\* What the sequential run yields for column c.
OwnBounds(c) == <<NpMin(ColumnOf(df, c)), NpMax(ColumnOf(df, c))>>
OwnScaled(c) ==
    ScaleBy(map_name_to_scaler[name], ColumnOf(df, c), OwnBounds(c)[1], OwnBounds(c)[2])

====
